---- MODULE Spec2Model ----
(***************************************************************************)
(* mac_address: enumeration of the host's hardware (MAC) addresses.        *)
(*                                                                         *)
(* Two backends are modelled:                                              *)
(*   linux   - src/src/linux.rs, src/src/iter/linux.rs: the three query    *)
(*             functions and the iterator over nix's getifaddrs() list;    *)
(*   windows - src/src/windows.rs, src/src/iter/windows.rs: get_adapters   *)
(*             (probe, allocate, fill against GetAdaptersAddresses), the   *)
(*             three raw-pointer loops and the raw-buffer iterator.        *)
(*                                                                         *)
(* Text is a sequence of code points; a wide string is a sequence of       *)
(* 16-bit code units.  Buffer sizes are counted in adapter records: one    *)
(* cell of the buffer holds one IP_ADAPTER_ADDRESSES_LH record.            *)
(***************************************************************************)
EXTENDS Integers, Sequences, FiniteSets, TLC

\* Largest number of adapters the host has at any time.
MaxAdapters == 2

----------------------------------------------------------------------------
(* Values: Option, Result *)

None == <<>>
Some(v) == <<v>>
IsSome(o) == Len(o) = 1
Unwrap(o) == o[1]

\* MacAddressError::InternalError
InternalError == "InternalError"

----------------------------------------------------------------------------
(* Hardware addresses *)

\* [u8; 6]: the all-zero address and two real ones.
ZeroMac == <<0, 0, 0, 0, 0, 0>>
MacPool == {ZeroMac, <<0, 0, 0, 0, 0, 1>>, <<2, 0, 0, 0, 0, 0>>}

\* PhysicalAddress: [u8; 8] (MAX_ADAPTER_ADDRESS_LENGTH), the address in the
\* first six bytes.
PhysPool == {m \o <<0, 0>> : m \in MacPool}

\* A test of the first byte alone, as a slip in the closure would make it.
any_nonzero_first(bytes) == bytes[1] # 0

\* bytes.iter().any(|&x| x != 0)
any_nonzero(bytes) == \E i \in 1..Len(bytes) : bytes[i] # 0

----------------------------------------------------------------------------
(* Text *)

\* &str arguments of get_mac: "a", U+1F600 and "b" (no adapter is called "b").
StrPool == {<<97>>, <<128512>>, <<98>>}

\* interface_name of the getifaddrs() entries.
IfNamePool == {<<97>>, <<128512>>}

\* FriendlyName of the host's adapters, as UTF-16 code units without the
\* terminator: "a", the surrogate pair of U+1F600, and a lone high surrogate
\* (not valid UTF-16).
WidePool == {<<97>>, <<55357, 56832>>, <<55357>>}

IsHighSurrogate(u) == u \in 55296..56319
IsLowSurrogate(u) == u \in 56320..57343
IsSurrogate(c) == c \in 55296..57343

\* get_null_position, the loop from offset i on.
RECURSIVE get_null_position_from(_, _)
get_null_position_from(mem, i) ==
    IF mem[i + 1] = 0 THEN i ELSE get_null_position_from(mem, i + 1)

\* A length that counts the terminator.
get_null_position_whole(mem) == Len(mem)

\* get_null_position: the offset of the first zero unit.
get_null_position(mem) == get_null_position_from(mem, 0)

\* A decoding that takes every unit for a code point of its own.
from_wide_unpaired(slice) == slice

\* OsStringExt::from_wide: a surrogate pair becomes one code point, any other
\* unit (an unpaired surrogate too) is kept as the code point of its value.
RECURSIVE from_wide(_)
from_wide(slice) ==
    IF Len(slice) = 0 THEN <<>>
    ELSE IF /\ IsHighSurrogate(slice[1])
            /\ Len(slice) >= 2
            /\ IsLowSurrogate(slice[2])
         THEN << 65536 + (slice[1] - 55296) * 1024 + (slice[2] - 56320) >>
                  \o from_wide(SubSeq(slice, 3, Len(slice)))
         ELSE << slice[1] >> \o from_wide(Tail(slice))

\* A construction that replaces every unpaired surrogate by U+FFFD, as
\* String::from_utf16_lossy does.
construct_string_lossy(mem) ==
    LET os == from_wide(SubSeq(mem, 1, get_null_position(mem)))
    IN  [i \in 1..Len(os) |-> IF IsSurrogate(os[i]) THEN 65533 ELSE os[i]]

\* construct_string: the units before the terminator, as an OsString.
construct_string(mem) == from_wide(SubSeq(mem, 1, get_null_position(mem)))

\* A conversion that never fails.
into_string_lossy(os) == [ok |-> TRUE, s |-> os]

\* OsString::into_string: Err(self) when the string holds a surrogate.
into_string(os) ==
    IF \E i \in 1..Len(os) : IsSurrogate(os[i])
    THEN [ok |-> FALSE, s |-> os]
    ELSE [ok |-> TRUE, s |-> os]

----------------------------------------------------------------------------
(* Results *)

Ok(v) == [tag |-> "Ok", val |-> v]
Err(e) == [tag |-> "Err", val |-> e]
IsOk(r) == r.tag = "Ok"
IsErr(r) == r.tag = "Err"

\* What a traversal returns, and the cursor positions it dereferenced.
Outcome(r, seen) == [ret |-> r, visited |-> seen]

----------------------------------------------------------------------------
(* windows: the raw buffer *)

\* A pointer into the buffer is the index of a cell; the null pointer.
NULL == 0

\* Vec::as_mut_ptr() of an empty Vec: not null, and not a cell of any buffer.
DANGLING == -1

is_null(ptr) == ptr = NULL

\* One IP_ADAPTER_ADDRESSES_LH as the code reads it.  FriendlyName is the
\* memory the PWSTR points to (the units and their terminator), << >> for a
\* null PWSTR.
ZeroCell == [PhysicalAddress |-> <<0, 0, 0, 0, 0, 0, 0, 0>>,
             FriendlyName |-> <<>>,
             Next |-> NULL]

\* An allocation one cell short of the reported size.
vec_zeroed_short(len) == [i \in 1..(IF len > 0 THEN len - 1 ELSE 0) |-> ZeroCell]

\* vec![0u8; buf_len as usize]
vec_zeroed(len) == [i \in 1..len |-> ZeroCell]

\* adapters.as_mut_ptr() as *mut IP_ADAPTER_ADDRESSES_LH
as_mut_ptr(adapters) == IF Len(adapters) = 0 THEN DANGLING ELSE 1

\* An adapter of a windows host.
WinAdapter == [FriendlyName : WidePool, PhysicalAddress : PhysPool]

\* The records GetAdaptersAddresses writes for the adapters h: a chain in
\* the order of h, the first record at the start of the buffer, the last
\* one's Next null.
OsRecords(h) ==
    [i \in 1..Len(h) |->
        [PhysicalAddress |-> h[i].PhysicalAddress,
         FriendlyName |-> h[i].FriendlyName \o <<0>>,
         Next |-> IF i < Len(h) THEN i + 1 ELSE NULL]]

\* GetAdaptersAddresses(AF_UNSPEC, GAA_FLAG_NONE, None, None, &mut buf_len)
\* on a host with adapters h: the answers the facility can give, with the
\* value it leaves in buf_len (0 on entry).  No adapters: ERROR_NO_DATA.
\* Otherwise the required size.  The call can also fail for want of memory.
OsProbe(h) ==
    { IF Len(h) = 0
      THEN [code |-> "ERROR_NO_DATA", size |-> 0]
      ELSE [code |-> "ERROR_BUFFER_OVERFLOW", size |-> Len(h)] }
    \cup { [code |-> "ERROR_NOT_ENOUGH_MEMORY", size |-> 0] }

\* GetAdaptersAddresses(.., Some(adapter_addresses), &mut buf_len) on a host
\* with adapters h and a buffer buf of buf_len cells: the answers the
\* facility can give, with the buffer as it leaves it.  As the facility is
\* documented: ERROR_NO_DATA when there is no adapter, ERROR_BUFFER_OVERFLOW
\* when the buffer is too small for the adapters there are now, and
\* otherwise ERROR_SUCCESS with the records written from the start of the
\* buffer.  So a buffer that was filled holds at least one record.
OsFill(h, buf) ==
    { IF Len(h) = 0
      THEN [code |-> "ERROR_NO_DATA", buf |-> buf]
      ELSE IF Len(buf) < Len(h)
      THEN [code |-> "ERROR_BUFFER_OVERFLOW", buf |-> buf]
      ELSE [code |-> "ERROR_SUCCESS",
            buf |-> [i \in 1..Len(buf) |->
                        IF i <= Len(h) THEN OsRecords(h)[i] ELSE buf[i]]] }
    \cup { [code |-> "ERROR_NOT_ENOUGH_MEMORY", buf |-> buf] }

\* The same call on a facility that, against its documentation, answers
\* ERROR_SUCCESS when there is no adapter and the buffer has no cell: it
\* writes nothing.
OsFillEmpty(h, buf) ==
    OsFill(h, buf)
    \cup (IF Len(h) = 0 /\ Len(buf) = 0
          THEN { [code |-> "ERROR_SUCCESS", buf |-> buf] }
          ELSE {})

\* A get_adapters that does not look at the fill call's result.
get_adapters_result_unchecked(fill) == Ok(fill.buf)

\* get_adapters from the check of the fill call's result on.
get_adapters_result(fill) ==
    IF fill.code # "ERROR_SUCCESS" THEN Err(InternalError) ELSE Ok(fill.buf)

\* A conversion that takes the last six bytes of PhysicalAddress.
convert_mac_bytes_last(adapters, ptr) ==
    SubSeq(adapters[ptr].PhysicalAddress, 3, 8)

\* convert_mac_bytes: the first six bytes of PhysicalAddress.
convert_mac_bytes(adapters, ptr) == SubSeq(adapters[ptr].PhysicalAddress, 1, 6)

----------------------------------------------------------------------------
(* windows: the three loops of src/src/windows.rs *)

\* Whether ptr is the address of a cell of the buffer.
InBuffer(adapters, ptr) == ptr \in 1..Len(adapters)

\* A read through a pointer that is neither null nor in the buffer is
\* undefined behaviour; a null FriendlyName fails get_null_position's assert.
UB == [tag |-> "UB", val |-> None]
Panic == [tag |-> "Panic", val |-> None]

RECURSIVE windows_get_mac_loop(_, _, _, _)
windows_get_mac_loop(adapters, ptr, name, seen) ==
    IF is_null(ptr) THEN Outcome(Ok(None), seen)
    ELSE IF ~InBuffer(adapters, ptr) THEN Outcome(UB, seen)
    ELSE
      LET bytes == convert_mac_bytes(adapters, ptr)
          seen1 == Append(seen, ptr)
      IN  IF IsSome(name)
          THEN IF adapters[ptr].FriendlyName = <<>> THEN Outcome(Panic, seen1)
               ELSE IF construct_string(adapters[ptr].FriendlyName) = Unwrap(name)
               THEN Outcome(Ok(Some(bytes)), seen1)
               ELSE windows_get_mac_loop(adapters, adapters[ptr].Next, name, seen1)
          ELSE IF any_nonzero(bytes)
               THEN Outcome(Ok(Some(bytes)), seen1)
               ELSE windows_get_mac_loop(adapters, adapters[ptr].Next, name, seen1)

windows_get_mac(adapters, name) ==
    windows_get_mac_loop(adapters, as_mut_ptr(adapters), name, <<>>)

RECURSIVE windows_get_mac_list_loop(_, _, _, _)
windows_get_mac_list_loop(adapters, ptr, result, seen) ==
    IF is_null(ptr) THEN Outcome(Ok(result), seen)
    ELSE IF ~InBuffer(adapters, ptr) THEN Outcome(UB, seen)
    ELSE
      LET bytes == convert_mac_bytes(adapters, ptr)
          seen1 == Append(seen, ptr)
      IN  windows_get_mac_list_loop(
              adapters, adapters[ptr].Next,
              IF any_nonzero(bytes) THEN Append(result, bytes) ELSE result,
              seen1)

\* A list that keeps the all-zero addresses, as the iterator does.
windows_get_mac_list_unfiltered(adapters) ==
    Outcome(Ok([i \in 1..Len(adapters) |-> convert_mac_bytes(adapters, i)]),
            [i \in 1..Len(adapters) |-> i])

windows_get_mac_list(adapters) ==
    windows_get_mac_list_loop(adapters, as_mut_ptr(adapters), <<>>, <<>>)

RECURSIVE windows_get_ifname_loop(_, _, _, _)
windows_get_ifname_loop(adapters, ptr, mac, seen) ==
    IF is_null(ptr) THEN Outcome(Ok(None), seen)
    ELSE IF ~InBuffer(adapters, ptr) THEN Outcome(UB, seen)
    ELSE
      LET bytes == convert_mac_bytes(adapters, ptr)
          seen1 == Append(seen, ptr)
      IN  IF bytes = mac
          THEN IF adapters[ptr].FriendlyName = <<>> THEN Outcome(Panic, seen1)
               ELSE LET adapter_name ==
                          into_string(construct_string(adapters[ptr].FriendlyName))
                    IN  IF adapter_name.ok
                        THEN Outcome(Ok(Some(adapter_name.s)), seen1)
                        ELSE Outcome(Err(InternalError), seen1)
          ELSE windows_get_ifname_loop(adapters, adapters[ptr].Next, mac, seen1)

\* A lookup that applies get_mac's zero filter to the queried address.
windows_get_ifname_filtered(adapters, mac) ==
    IF any_nonzero(mac)
    THEN windows_get_ifname_loop(adapters, as_mut_ptr(adapters), mac, <<>>)
    ELSE Outcome(Ok(None), <<>>)

windows_get_ifname(adapters, mac) ==
    windows_get_ifname_loop(adapters, as_mut_ptr(adapters), mac, <<>>)

\* let mut adapters = get_adapters()?; and the loop of the called function.
windows_query(fn, arg, acquired) ==
    IF IsErr(acquired) THEN Outcome(acquired, <<>>)
    ELSE IF fn = "get_mac" THEN windows_get_mac(acquired.val, arg)
    ELSE IF fn = "get_mac_list" THEN windows_get_mac_list(acquired.val)
    ELSE windows_get_ifname(acquired.val, arg)

----------------------------------------------------------------------------
(* linux: the three loops of src/src/linux.rs *)

\* interface.address: None, an address that is no link address, a link
\* address without hardware address, a link address with one.
SockAddr == { [family |-> "inet", addr |-> None] }
            \cup { [family |-> "packet", addr |-> a] :
                     a \in {None} \cup {Some(m) : m \in MacPool} }

InterfaceAddress ==
    [interface_name : IfNamePool,
     address : {None} \cup {Some(sa) : sa \in SockAddr}]

\* SockaddrStorage::as_link_addr
as_link_addr(address) == IF address.family = "packet" THEN Some(address) ELSE None

\* LinkAddr::addr
link_addr(link) == link.addr

\* The hardware address the three nested `if let` reach, if any.
link_bytes(interface) ==
    IF IsSome(interface.address)
    THEN LET link == as_link_addr(Unwrap(interface.address))
         IN  IF IsSome(link) THEN link_addr(Unwrap(link)) ELSE None
    ELSE None

\* getifaddrs(): the list, or an errno.
OsGetifaddrs(h) == { Ok(h), Err("ENOMEM") }

\* From<nix::Error> for MacAddressError, applied by `?`.
from_nix_error(e) == "UnderlyingIoError"

RECURSIVE linux_get_mac_loop(_, _, _, _)
linux_get_mac_loop(ifiter, i, name, seen) ==
    IF i > Len(ifiter) THEN Outcome(Ok(None), seen)
    ELSE
      LET interface == ifiter[i]
          bytes == link_bytes(interface)
          seen1 == Append(seen, i)
      IN  IF IsSome(bytes)
          THEN IF IsSome(name)
               THEN IF interface.interface_name = Unwrap(name)
                    THEN Outcome(Ok(Some(Unwrap(bytes))), seen1)
                    ELSE linux_get_mac_loop(ifiter, i + 1, name, seen1)
               ELSE IF any_nonzero(Unwrap(bytes))
                    THEN Outcome(Ok(Some(Unwrap(bytes))), seen1)
                    ELSE linux_get_mac_loop(ifiter, i + 1, name, seen1)
          ELSE linux_get_mac_loop(ifiter, i + 1, name, seen1)

\* A traversal that starts at the second entry.
linux_get_mac_skip(ifiter, name) == linux_get_mac_loop(ifiter, 2, name, <<>>)

linux_get_mac(ifiter, name) == linux_get_mac_loop(ifiter, 1, name, <<>>)

RECURSIVE linux_get_mac_list_loop(_, _, _, _)
linux_get_mac_list_loop(ifiter, i, result, seen) ==
    IF i > Len(ifiter) THEN Outcome(Ok(result), seen)
    ELSE
      LET bytes == link_bytes(ifiter[i])
      IN  linux_get_mac_list_loop(
              ifiter, i + 1,
              IF IsSome(bytes) /\ any_nonzero(Unwrap(bytes))
              THEN Append(result, Unwrap(bytes)) ELSE result,
              Append(seen, i))

linux_get_mac_list(ifiter) == linux_get_mac_list_loop(ifiter, 1, <<>>, <<>>)

RECURSIVE linux_get_ifname_loop(_, _, _, _)
linux_get_ifname_loop(ifiter, i, mac, seen) ==
    IF i > Len(ifiter) THEN Outcome(Ok(None), seen)
    ELSE
      LET interface == ifiter[i]
          bytes == link_bytes(interface)
          seen1 == Append(seen, i)
      IN  IF IsSome(bytes) /\ Unwrap(bytes) = mac
          THEN Outcome(Ok(Some(interface.interface_name)), seen1)
          ELSE linux_get_ifname_loop(ifiter, i + 1, mac, seen1)

linux_get_ifname(ifiter, mac) == linux_get_ifname_loop(ifiter, 1, mac, <<>>)

\* let ifiter = getifaddrs()?; and the loop of the called function.
linux_query(fn, arg, acquired) ==
    IF IsErr(acquired) THEN Outcome(Err(from_nix_error(acquired.val)), <<>>)
    ELSE IF fn = "get_mac" THEN linux_get_mac(acquired.val, arg)
    ELSE IF fn = "get_mac_list" THEN linux_get_mac_list(acquired.val)
    ELSE linux_get_ifname(acquired.val, arg)

----------------------------------------------------------------------------
(* MacAddressIterator *)

\* MacAddress::new
MacAddress_new(bytes) == [bytes |-> bytes]

\* What the iterator is before new() and after it is dropped.  snap, yielded
\* and ends are history: the adapters at construction, the items produced
\* and the number of times next() has signalled the end.
NoIter == [live |-> FALSE, _buffer |-> <<>>, ptr |-> NULL,
           snap |-> <<>>, yielded |-> <<>>, ends |-> 0]

\* src/src/iter/windows.rs: MacAddressIterator::new after get_adapters()?.
windows_iter_new(adapters, snap) ==
    [live |-> TRUE, _buffer |-> adapters, ptr |-> as_mut_ptr(adapters),
     snap |-> snap, yielded |-> <<>>, ends |-> 0]

\* A next() that puts the cursor back to the start when it signals the end.
windows_iter_next_restart(self) ==
    IF is_null(self.ptr)
    THEN [tag |-> "Ok", item |-> None, ptr |-> as_mut_ptr(self._buffer)]
    ELSE IF ~InBuffer(self._buffer, self.ptr)
    THEN [tag |-> "UB", item |-> None, ptr |-> self.ptr]
    ELSE [tag |-> "Ok",
          item |-> Some(MacAddress_new(convert_mac_bytes(self._buffer, self.ptr))),
          ptr |-> self._buffer[self.ptr].Next]

\* src/src/iter/windows.rs: next().  The item and the cursor after the call,
\* or undefined behaviour when the cursor is neither null nor in the buffer.
windows_iter_next(self) ==
    IF is_null(self.ptr) THEN [tag |-> "Ok", item |-> None, ptr |-> self.ptr]
    ELSE IF ~InBuffer(self._buffer, self.ptr)
    THEN [tag |-> "UB", item |-> None, ptr |-> self.ptr]
    ELSE [tag |-> "Ok",
          item |-> Some(MacAddress_new(convert_mac_bytes(self._buffer, self.ptr))),
          ptr |-> self._buffer[self.ptr].Next]

\* src/src/iter/linux.rs: filter_macs
filter_macs(intf) ==
    IF IsSome(intf.address)
    THEN LET link == as_link_addr(Unwrap(intf.address))
         IN  IF IsSome(link)
             THEN IF IsSome(link_addr(Unwrap(link)))
                  THEN Some(MacAddress_new(Unwrap(link_addr(Unwrap(link)))))
                  ELSE None
             ELSE None
    ELSE None

\* src/src/iter/linux.rs: new() after getifaddrs()?: nothing is read yet;
\* _buffer holds the entries the wrapped iterator has not produced.
linux_iter_new(ifiter, snap) ==
    [live |-> TRUE, _buffer |-> ifiter, ptr |-> NULL,
     snap |-> snap, yielded |-> <<>>, ends |-> 0]

\* FilterMap::next: the wrapped iterator is advanced until filter_macs
\* returns Some.  [item, rest]
RECURSIVE filter_map_next(_)
filter_map_next(rest) ==
    IF Len(rest) = 0 THEN [item |-> None, rest |-> rest]
    ELSE LET m == filter_macs(Head(rest))
         IN  IF IsSome(m) THEN [item |-> m, rest |-> Tail(rest)]
             ELSE filter_map_next(Tail(rest))

----------------------------------------------------------------------------
(* State *)

VARIABLES
    backend,        \* "linux" or "windows": the platform the crate is built for
    host,           \* the host's adapters, in the order the OS reports them
    pc,             \* where the call in progress is: idle, alloc, fill
    call,           \* the call in progress: [fn, arg]
    buf_len,        \* get_adapters: buf_len
    adapters_list,  \* get_adapters: adapters_list
    log,            \* the OS calls and the allocation of the last get_adapters
    res,            \* the call that returned last and what it returned
    it              \* the MacAddressIterator the caller holds

vars == <<backend, host, pc, call, buf_len, adapters_list, log, res, it>>

NoCall == [fn |-> "none", arg |-> None]
NoRes == [fn |-> "none", arg |-> None, snap |-> <<>>,
          ret |-> [tag |-> "none", val |-> None], visited |-> <<>>]

\* The calls a caller can make: get_mac(name), get_mac_list(), get_ifname(mac)
\* and MacAddressIterator::new().
Calls ==
    { [fn |-> "get_mac", arg |-> n] : n \in {None} \cup {Some(s) : s \in StrPool} }
    \cup { [fn |-> "get_mac_list", arg |-> None] }
    \cup { [fn |-> "get_ifname", arg |-> m] : m \in MacPool }
    \cup { [fn |-> "iter_new", arg |-> None] }

HostAdapter == IF backend = "windows" THEN WinAdapter ELSE InterfaceAddress

Init ==
    /\ backend \in {"linux", "windows"}
    /\ host = <<>>
    /\ pc = "idle"
    /\ call = NoCall
    /\ buf_len = 0
    /\ adapters_list = <<>>
    /\ log = <<>>
    /\ res = NoRes
    /\ it = NoIter

----------------------------------------------------------------------------
(* Undefined behaviour *)

\* A process killed by the read.
Crash == [tag |-> "Crash", val |-> None]

\* What a query can return after a read through a pointer that is not in
\* the buffer: any value of its return type, or no return at all.
UbRets(fn) ==
    IF fn = "get_mac"
    THEN {Crash, Ok(None)} \cup {Ok(Some(m)) : m \in MacPool}
    ELSE IF fn = "get_mac_list"
    THEN {Crash, Ok(<<>>)} \cup {Ok(<<m>>) : m \in MacPool}
    ELSE {Crash, Ok(None), Err(InternalError)} \cup {Ok(Some(n)) : n \in StrPool}

\* The outcomes of a traversal: the one computed, or any when it read
\* through a pointer that is not in the buffer.
Settle(fn, out) ==
    IF out.ret.tag = "UB"
    THEN {Outcome(r, out.visited) : r \in UbRets(fn)}
    ELSE {out}

\* The same for one next() of the raw-buffer iterator.
SettleNext(n) ==
    IF n.tag = "UB"
    THEN {[tag |-> "Crash", item |-> None, ptr |-> n.ptr]}
         \cup {[tag |-> "Ok", item |-> Some(MacAddress_new(m)), ptr |-> q] :
                 m \in MacPool, q \in {NULL, DANGLING}}
    ELSE {n}

----------------------------------------------------------------------------
(* Actions *)

\* Largest number of times next() is called on an exhausted iterator.
MaxEnds == 2

\* The environment: an adapter appears.  The host's list is not changed
\* while the caller holds an iterator: the iterator reads its own buffer
\* only, so the interleaving would add nothing but states.
Plug(a) ==
    /\ ~it.live
    /\ Len(host) < MaxAdapters
    /\ host' = Append(host, a)
    /\ res' = NoRes
    /\ log' = IF pc = "idle" THEN <<>> ELSE log
    /\ UNCHANGED <<backend, pc, call, buf_len, adapters_list, it>>

\* The environment: the i-th adapter disappears.
Unplug(i) ==
    /\ ~it.live
    /\ i \in 1..Len(host)
    /\ host' = SubSeq(host, 1, i - 1) \o SubSeq(host, i + 1, Len(host))
    /\ res' = NoRes
    /\ log' = IF pc = "idle" THEN <<>> ELSE log
    /\ UNCHANGED <<backend, pc, call, buf_len, adapters_list, it>>

\* The same, with the result of the last call kept across the removal (once:
\* log is emptied, which marks the result as one of an earlier adapter
\* list), so that the call after the removal can be told from it.
UnplugKeep(i) ==
    /\ ~it.live
    /\ i \in 1..Len(host)
    /\ host' = SubSeq(host, 1, i - 1) \o SubSeq(host, i + 1, Len(host))
    /\ res' = IF pc = "idle" /\ Len(log) > 0 THEN res ELSE NoRes
    /\ log' = IF pc = "idle" THEN <<>> ELSE log
    /\ UNCHANGED <<backend, pc, call, buf_len, adapters_list, it>>

LogEntry(op, code, len) == [op |-> op, code |-> code, len |-> len]

\* windows, get_adapters: let mut buf_len = 0; and the first
\* GetAdaptersAddresses call, whose return value is dropped.  The adapters
\* can change before the next step.  A query and a live iterator share
\* nothing, so the caller is taken to make its queries while it holds no
\* iterator.
WinProbe(c) ==
    /\ backend = "windows"
    /\ pc = "idle"
    /\ ~it.live
    /\ \E p \in OsProbe(host) :
          /\ buf_len' = p.size
          /\ log' = << LogEntry("probe", p.code, p.size) >>
    /\ call' = c
    /\ pc' = "alloc"
    /\ res' = NoRes
    /\ UNCHANGED <<backend, host, adapters_list, it>>

\* windows, get_adapters: vec![0u8; buf_len as usize]
WinAllocate ==
    /\ pc = "alloc"
    /\ adapters_list' = vec_zeroed(buf_len)
    /\ log' = Append(log, LogEntry("alloc", "", Len(vec_zeroed(buf_len))))
    /\ pc' = "fill"
    /\ UNCHANGED <<backend, host, call, buf_len, res, it>>

\* windows, get_adapters: the second GetAdaptersAddresses call and the check
\* of its result; then the rest of the function that called get_adapters.
WinFillWith(fills) ==
    /\ pc = "fill"
    /\ \E f \in fills :
          LET acquired == get_adapters_result(f)
          IN  /\ log' = Append(log, LogEntry("fill", f.code, buf_len))
              /\ IF call.fn = "iter_new"
                 THEN /\ it' = IF IsErr(acquired) THEN NoIter
                               ELSE windows_iter_new(acquired.val, host)
                      /\ res' = [fn |-> call.fn, arg |-> call.arg, snap |-> host,
                                 ret |-> IF IsErr(acquired) THEN acquired
                                         ELSE Ok(None),
                                 visited |-> <<>>]
                 ELSE /\ it' = it
                      /\ \E out \in Settle(call.fn,
                                           windows_query(call.fn, call.arg, acquired)) :
                            res' = [fn |-> call.fn, arg |-> call.arg, snap |-> host,
                                    ret |-> out.ret, visited |-> out.visited]
    /\ pc' = "idle"
    /\ call' = NoCall
    /\ buf_len' = 0
    /\ adapters_list' = <<>>
    /\ UNCHANGED <<backend, host>>

WinFill == WinFillWith(OsFill(host, adapters_list))

\* The same step on the facility that can fill an empty buffer.
WinFillEmpty == WinFillWith(OsFillEmpty(host, adapters_list))

\* linux: one call of get_mac, get_mac_list, get_ifname or
\* MacAddressIterator::new, from getifaddrs() to the return.
LinuxCallOn(c, answers) ==
    /\ backend = "linux"
    /\ pc = "idle"
    /\ ~it.live
    /\ \E g \in answers :
          /\ log' = << LogEntry("getifaddrs", g.tag, Len(host)) >>
          /\ IF c.fn = "iter_new"
             THEN /\ it' = IF IsErr(g) THEN NoIter ELSE linux_iter_new(g.val, host)
                  /\ res' = [fn |-> c.fn, arg |-> c.arg, snap |-> host,
                             ret |-> IF IsErr(g) THEN Err(from_nix_error(g.val))
                                     ELSE Ok(None),
                             visited |-> <<>>]
             ELSE /\ it' = it
                  /\ LET out == linux_query(c.fn, c.arg, g)
                     IN  res' = [fn |-> c.fn, arg |-> c.arg, snap |-> host,
                                 ret |-> out.ret, visited |-> out.visited]
    /\ UNCHANGED <<backend, host, pc, call, buf_len, adapters_list>>

\* A call that traverses the list of the call before it, when that call got
\* one, instead of asking getifaddrs() again.
LinuxCall_cached(c) ==
    LinuxCallOn(c, IF res.snap # <<>> /\ res.ret.tag = "Ok"
                   THEN {Ok(res.snap)}
                   ELSE OsGetifaddrs(host))

LinuxCall(c) == LinuxCallOn(c, OsGetifaddrs(host))

\* One next() on the iterator the caller holds.  The caller stops when the
\* iterator has produced more items than a host has adapters.
IterNext ==
    /\ it.live
    /\ it.ends < MaxEnds
    /\ Len(it.yielded) <= MaxAdapters
    /\ IF backend = "windows"
       THEN \E n \in SettleNext(windows_iter_next(it)) :
              /\ it' = IF n.tag = "Crash" THEN NoIter
                       ELSE [it EXCEPT
                               !.ptr = n.ptr,
                               !.yielded = IF IsSome(n.item)
                                           THEN Append(@, Unwrap(n.item)) ELSE @,
                               !.ends = IF IsSome(n.item) THEN @ ELSE @ + 1]
              /\ res' = [fn |-> "next", arg |-> None, snap |-> it.snap,
                         ret |-> [tag |-> n.tag, val |-> n.item],
                         visited |-> IF InBuffer(it._buffer, it.ptr)
                                     THEN <<it.ptr>> ELSE <<>>]
       ELSE LET n == filter_map_next(it._buffer)
            IN  /\ it' = [it EXCEPT
                            !._buffer = n.rest,
                            !.yielded = IF IsSome(n.item)
                                        THEN Append(@, Unwrap(n.item)) ELSE @,
                            !.ends = IF IsSome(n.item) THEN @ ELSE @ + 1]
                /\ res' = [fn |-> "next", arg |-> None, snap |-> it.snap,
                           ret |-> Ok(n.item), visited |-> <<>>]
    /\ UNCHANGED <<backend, host, pc, call, buf_len, adapters_list, log>>

\* The caller drops the iterator, and its buffer with it.
IterDrop ==
    /\ it.live
    /\ it' = NoIter
    /\ res' = NoRes
    /\ log' = <<>>
    /\ UNCHANGED <<backend, host, pc, call, buf_len, adapters_list>>

Next ==
    \/ \E a \in HostAdapter : Plug(a)
    \/ \E i \in 1..MaxAdapters : Unplug(i)
    \/ \E c \in Calls : WinProbe(c)
    \/ WinAllocate
    \/ WinFill
    \/ \E c \in Calls : LinuxCall(c)
    \/ IterNext
    \/ IterDrop

Spec == Init /\ [][Next]_vars

\* The program on the facility that can fill an empty buffer.
NextEmpty ==
    \/ \E a \in HostAdapter : Plug(a)
    \/ \E i \in 1..MaxAdapters : Unplug(i)
    \/ \E c \in Calls : WinProbe(c)
    \/ WinAllocate
    \/ WinFillEmpty
    \/ \E c \in Calls : LinuxCall(c)
    \/ IterNext
    \/ IterDrop

SpecEmpty == Init /\ [][NextEmpty]_vars

\* The program with the result of a call kept while an adapter is removed.
NextFresh ==
    \/ \E a \in HostAdapter : Plug(a)
    \/ \E i \in 1..MaxAdapters : UnplugKeep(i)
    \/ \E c \in Calls : WinProbe(c)
    \/ WinAllocate
    \/ WinFill
    \/ \E c \in Calls : LinuxCall(c)
    \/ IterNext
    \/ IterDrop

SpecFresh == Init /\ [][NextFresh]_vars

TypeOK ==
    /\ backend \in {"linux", "windows"}
    /\ Len(host) <= MaxAdapters
    /\ pc \in {"idle", "alloc", "fill"}
    /\ buf_len \in 0..MaxAdapters

----------------------------------------------------------------------------
(* What the claims are stated in: the records of a snapshot *)

Min(S) == CHOOSE x \in S : \A y \in S : x <= y

\* Whether a getifaddrs() entry carries a hardware address.
HasHw(e) ==
    /\ e.address # None
    /\ e.address[1].family = "packet"
    /\ e.address[1].addr # None

\* The (name, address) records of the adapters snap of a host of backend b,
\* in traversal order.  On windows the name is the wide string.
SnapRecords(b, snap) ==
    IF b = "windows"
    THEN [i \in 1..Len(snap) |->
            [name |-> snap[i].FriendlyName,
             addr |-> [k \in 1..6 |-> snap[i].PhysicalAddress[k]]]]
    ELSE LET hw == SelectSeq(snap, HasHw)
         IN  [i \in 1..Len(hw) |->
                [name |-> hw[i].interface_name,
                 addr |-> hw[i].address[1].addr[1]]]

\* The UTF-16 encoding of a text.
RECURSIVE Utf16(_)
Utf16(s) ==
    IF Len(s) = 0 THEN <<>>
    ELSE (IF s[1] < 65536 THEN << s[1] >>
          ELSE << 55296 + ((s[1] - 65536) \div 1024),
                  56320 + ((s[1] - 65536) % 1024) >>)
         \o Utf16(Tail(s))

\* Whether a wide string is valid UTF-16: every surrogate is half of a pair.
ValidUtf16(w) ==
    \A i \in 1..Len(w) :
        /\ IsHighSurrogate(w[i]) => (i < Len(w) /\ IsLowSurrogate(w[i + 1]))
        /\ IsLowSurrogate(w[i]) => (i > 1 /\ IsHighSurrogate(w[i - 1]))

\* Whether the record's display name is the text s.
NameIs(b, rec, s) == IF b = "windows" THEN rec.name = Utf16(s) ELSE rec.name = s

\* Whether the record's display name is a text at all.
NameIsText(b, rec) == b = "windows" => ValidUtf16(rec.name)

\* The records of the snapshot the last call worked on.
Recs == SnapRecords(backend, res.snap)

\* The last call was a query or new(), and its acquisition of the adapter
\* list succeeded: res.snap is the snapshot it traversed.
Acquired ==
    /\ res.fn \in {"get_mac", "get_mac_list", "get_ifname", "iter_new"}
    /\ Len(log) > 0
    /\ log[Len(log)].code \in {"ERROR_SUCCESS", "Ok"}

IsInternalError(r) == r.tag = "Err" /\ r.val = InternalError

\* get_mac_list() of this crate on the snapshot snap of a host of backend b.
MacListOn(b, snap) ==
    IF b = "windows" THEN windows_get_mac_list(OsRecords(snap)).ret.val
    ELSE linux_get_mac_list(snap).ret.val

\* The indices of the records with the address mac / with the name s / with
\* an address that is not all-zero.
WithAddr(mac) == {i \in 1..Len(Recs) : Recs[i].addr = mac}
WithName(s) == {i \in 1..Len(Recs) : NameIs(backend, Recs[i], s)}
NonZero == {i \in 1..Len(Recs) : Recs[i].addr # ZeroMac}

----------------------------------------------------------------------------
(* C1 *)

\* C1: whenever get_mac_list() has acquired a snapshot, it returns Ok with
\* exactly the addresses of the snapshot's records that are not all-zero, in
\* traversal order, duplicates kept; Ok(empty list) when no record qualifies.
C1_MacListIsNonZeroSubsequence ==
    (res.fn = "get_mac_list" /\ Acquired) =>
        /\ IsOk(res.ret)
        /\ res.ret.val =
             LET nz == SelectSeq(Recs, LAMBDA r : r.addr # ZeroMac)
             IN  [i \in 1..Len(nz) |-> nz[i].addr]

\* An all-zero record before a real one: the list is the real one alone.
C1_Witness ==
    /\ res.fn = "get_mac_list" /\ Acquired
    /\ Len(Recs) = 2
    /\ Recs[1].addr = ZeroMac
    /\ Recs[2].addr # ZeroMac
    /\ IsOk(res.ret) /\ res.ret.val = << Recs[2].addr >>

----------------------------------------------------------------------------
(* C2 *)

\* C2: on one snapshot, get_mac(None) returns Some(a), a the first address
\* in traversal order that is not all-zero, and returns None if and only if
\* get_mac_list() on that snapshot is empty.
C2_MacNoneIsFirstNonZero ==
    (res.fn = "get_mac" /\ res.arg = None /\ Acquired) =>
        /\ IsOk(res.ret)
        /\ IF NonZero = {} THEN res.ret.val = None
           ELSE res.ret.val = Some(Recs[Min(NonZero)].addr)
        /\ (res.ret.val = None) <=> (MacListOn(backend, res.snap) = <<>>)

\* The first record is all-zero and is skipped for the second.
C2_Witness ==
    /\ res.fn = "get_mac" /\ res.arg = None /\ Acquired
    /\ Len(Recs) = 2
    /\ Recs[1].addr = ZeroMac
    /\ IsOk(res.ret) /\ res.ret.val = Some(Recs[2].addr)
    /\ Recs[2].addr # ZeroMac

----------------------------------------------------------------------------
(* C3 *)

\* C3 as stated: for every record named n with a non-zero address a in the
\* snapshot, get_mac(Some(n)) returns Some(a).
C3_EveryNamedRecordIsReturned ==
    (res.fn = "get_mac" /\ IsSome(res.arg) /\ Acquired) =>
        \A i \in WithName(Unwrap(res.arg)) :
            Recs[i].addr # ZeroMac =>
                (IsOk(res.ret) /\ res.ret.val = Some(Recs[i].addr))

\* C3 amended: for every record named n with a non-zero address a that is
\* the first record of the snapshot named n, get_mac(Some(n)) returns Some(a).
C3_FirstNamedRecordIsReturned ==
    (res.fn = "get_mac" /\ IsSome(res.arg) /\ Acquired) =>
        \A i \in WithName(Unwrap(res.arg)) :
            (Recs[i].addr # ZeroMac /\ i = Min(WithName(Unwrap(res.arg)))) =>
                (IsOk(res.ret) /\ res.ret.val = Some(Recs[i].addr))

\* Two records of one name with different real addresses: the first one's
\* address is returned.
C3_Witness ==
    /\ res.fn = "get_mac" /\ IsSome(res.arg) /\ Acquired
    /\ WithName(Unwrap(res.arg)) = {1, 2}
    /\ Recs[1].addr # ZeroMac /\ Recs[2].addr # ZeroMac
    /\ Recs[1].addr # Recs[2].addr
    /\ IsOk(res.ret) /\ res.ret.val = Some(Recs[1].addr)

----------------------------------------------------------------------------
(* C4 *)

\* C4: get_mac(Some(name)) returns Ok(Some(addr)), addr the address of the
\* first record in traversal order whose display name equals name, all-zero
\* or not; it returns Ok(None) exactly when no record has that name.
C4_MacByNameIsFirstMatch ==
    (res.fn = "get_mac" /\ IsSome(res.arg) /\ Acquired) =>
        /\ IsOk(res.ret)
        /\ IF WithName(Unwrap(res.arg)) = {} THEN res.ret.val = None
           ELSE res.ret.val = Some(Recs[Min(WithName(Unwrap(res.arg)))].addr)

\* The record of that name is the second one and its address is all-zero:
\* it is returned, on the raw-buffer backend.
C4_Witness ==
    /\ backend = "windows"
    /\ res.fn = "get_mac" /\ IsSome(res.arg) /\ Acquired
    /\ WithName(Unwrap(res.arg)) = {2}
    /\ Recs[2].addr = ZeroMac
    /\ Recs[1].addr # ZeroMac
    /\ IsOk(res.ret) /\ res.ret.val = Some(ZeroMac)

----------------------------------------------------------------------------
(* C5, C6 *)

\* What get_ifname(mac) is to return on the snapshot of the last call: None
\* when no record has the address, else the display name of the first record
\* that has it, when that name is a text.
IfnameExpected(mac, r) ==
    IF WithAddr(mac) = {} THEN IsOk(r) /\ r.val = None
    ELSE /\ IsOk(r)
         /\ IsSome(r.val)
         /\ NameIs(backend, Recs[Min(WithAddr(mac))], Unwrap(r.val))

\* C5 as stated: on one snapshot, for every address a that get_mac_list()
\* returns, get_ifname(a) returns Some(n) for some name n.
C5_ListedAddressHasName ==
    (res.fn = "get_ifname" /\ Acquired) =>
        ((\E k \in 1..Len(MacListOn(backend, res.snap)) :
              MacListOn(backend, res.snap)[k] = res.arg)
            => (IsOk(res.ret) /\ IsSome(res.ret.val)))

\* C5 amended: on one snapshot, for every address a that get_mac_list()
\* returns, get_ifname(a) never returns Ok(None): it returns Ok(Some(n)), or
\* Err(InternalError) when the name of the first record with address a is
\* not valid UTF-16 (raw-buffer backend).
C5_ListedAddressHasNameOrError ==
    (res.fn = "get_ifname" /\ Acquired) =>
        ((\E k \in 1..Len(MacListOn(backend, res.snap)) :
              MacListOn(backend, res.snap)[k] = res.arg)
            => /\ WithAddr(res.arg) # {}
               /\ IF NameIsText(backend, Recs[Min(WithAddr(res.arg))])
                  THEN IsOk(res.ret) /\ IsSome(res.ret.val)
                  ELSE IsInternalError(res.ret))

\* A listed address whose first record has a name that is a text, behind a
\* record of another address: the name is found.
C5_Witness ==
    /\ backend = "windows"
    /\ res.fn = "get_ifname" /\ Acquired
    /\ MacListOn(backend, res.snap) = << Recs[1].addr, res.arg >>
    /\ Recs[1].addr # res.arg
    /\ IsOk(res.ret) /\ IsSome(res.ret.val)

\* C6 as stated: get_ifname(mac) returns Ok(Some(name)), name the display
\* name of the first record in traversal order whose address equals mac, an
\* all-zero mac included; it returns Ok(None) exactly when no record has
\* the address mac.
C6_IfnameIsFirstMatch ==
    (res.fn = "get_ifname" /\ Acquired) => IfnameExpected(res.arg, res.ret)

\* C6 amended: as C6, but when the display name of that first record is not
\* valid UTF-16 (raw-buffer backend) get_ifname(mac) returns
\* Err(InternalError).
C6_IfnameIsFirstMatchOrError ==
    (res.fn = "get_ifname" /\ Acquired) =>
        IF WithAddr(res.arg) # {}
           /\ ~NameIsText(backend, Recs[Min(WithAddr(res.arg))])
        THEN IsInternalError(res.ret)
        ELSE IfnameExpected(res.arg, res.ret)

\* The all-zero address is asked for and the second record has it: its name
\* is returned.
C6_Witness ==
    /\ backend = "windows"
    /\ res.fn = "get_ifname" /\ Acquired
    /\ res.arg = ZeroMac
    /\ WithAddr(ZeroMac) = {2}
    /\ IsOk(res.ret) /\ IsSome(res.ret.val)
    /\ NameIs(backend, Recs[2], Unwrap(res.ret.val))

----------------------------------------------------------------------------
(* C7 *)

\* C7: once next() has signalled the end of the sequence, every later next()
\* on that iterator signals the end too and leaves the cursor where it is.
C7_ExhaustionIsIdempotent ==
    [][ (it.live /\ it.ends >= 1 /\ it'.live) =>
            /\ res'.fn = "next"
            /\ IsOk(res'.ret) /\ res'.ret.val = None
            /\ it'.ptr = it.ptr
            /\ it'._buffer = it._buffer
            /\ it'.yielded = it.yielded ]_vars

\* A raw-buffer iterator that has yielded an address and has then signalled
\* the end twice.
C7_Witness ==
    /\ backend = "windows"
    /\ it.live
    /\ Len(it.yielded) >= 1
    /\ it.ends >= 2
    /\ res.fn = "next" /\ res.ret.val = None

----------------------------------------------------------------------------
(* C8 *)

CallNames == {"get_mac", "get_mac_list", "get_ifname", "iter_new"}

\* C8: when the fill call does not return ERROR_SUCCESS, get_mac,
\* get_mac_list, get_ifname and MacAddressIterator::new return
\* Err(InternalError): nothing of the buffer is read and the caller gets no
\* iterator.
C8_FillFailureIsInternalError ==
    ( /\ backend = "windows"
      /\ res.fn \in CallNames
      /\ Len(log) = 3
      /\ log[3].op = "fill"
      /\ log[3].code # "ERROR_SUCCESS" ) =>
        /\ IsInternalError(res.ret)
        /\ res.visited = <<>>
        /\ ~it.live

\* The probe reported a size, an adapter appeared, and the fill call found
\* the buffer too small: new() fails.
C8_Witness ==
    /\ backend = "windows"
    /\ res.fn = "iter_new"
    /\ Len(log) = 3
    /\ log[1].code = "ERROR_BUFFER_OVERFLOW"
    /\ log[3].code = "ERROR_BUFFER_OVERFLOW"
    /\ IsInternalError(res.ret)
    /\ ~it.live

----------------------------------------------------------------------------
(* C9 *)

\* C9 as stated: when the probe call answers anything but "buffer too
\* small", the acquisition fails with InternalError there and then: no
\* buffer is allocated and no fill call is made.
C9_BadProbeStopsAcquisition ==
    ( /\ backend = "windows"
      /\ Len(log) >= 1
      /\ log[1].op = "probe"
      /\ log[1].code # "ERROR_BUFFER_OVERFLOW" ) =>
        /\ \A k \in 2..Len(log) : log[k].op \notin {"alloc", "fill"}
        /\ res.fn \in CallNames => IsInternalError(res.ret)

----------------------------------------------------------------------------
(* C10 *)

\* C10: every acquisition goes probe, allocate, fill: the size S the probe
\* leaves in buf_len is allocated once, exactly, before the fill call; the
\* fill call is made once, with that buffer and the length S, and is not
\* made again whatever it returns.
C10_ProbeAllocateFillOnce ==
    backend = "windows" =>
        /\ Len(log) <= 3
        /\ Len(log) >= 1 => log[1].op = "probe"
        /\ Len(log) >= 2 => (log[2].op = "alloc" /\ log[2].len = log[1].len)
        /\ Len(log) >= 3 => (log[3].op = "fill" /\ log[3].len = log[1].len)
        /\ pc = "alloc" => Len(log) = 1
        /\ pc = "fill" => (Len(log) = 2 /\ Len(adapters_list) = log[1].len)
        /\ res.fn \in CallNames => Len(log) = 3

\* The fill call found a buffer of one record too small and the call
\* returned without a second fill call.
C10_Witness ==
    /\ backend = "windows"
    /\ res.fn = "get_mac_list"
    /\ Len(log) = 3
    /\ log[1].len = 1
    /\ log[2].len = 1
    /\ log[3].code = "ERROR_BUFFER_OVERFLOW"
    /\ pc = "idle"

----------------------------------------------------------------------------
(* C11 *)

\* The cursor positions the last call dereferenced, as a set.
Visited == {res.visited[j] : j \in 1..Len(res.visited)}

\* C11 as stated: whenever a query decodes a display name that is not valid
\* UTF-16 (get_mac with a name on each record it visits, get_ifname on the
\* first record with the address) it returns Err(InternalError).
C11_UndecodableNameIsInternalError ==
    ( /\ backend = "windows"
      /\ Acquired
      /\ \/ /\ res.fn = "get_mac" /\ IsSome(res.arg)
            /\ \E k \in Visited : ~ValidUtf16(Recs[k].name)
         \/ /\ res.fn = "get_ifname"
            /\ WithAddr(res.arg) # {}
            /\ ~ValidUtf16(Recs[Min(WithAddr(res.arg))].name) ) =>
        IsInternalError(res.ret)

\* C11 amended: only get_ifname converts a display name to text.  When the
\* name of the first record with the address is not valid UTF-16 it returns
\* Err(InternalError), and a name it returns is the whole name of that
\* record.  get_mac with a name compares the name as it is: it never
\* returns Err(InternalError) for a name, a name that is not valid UTF-16
\* never matches, and the traversal goes on past it.
C11_OnlyIfnameFailsOnUndecodableName ==
    (backend = "windows" /\ Acquired) =>
        /\ ( /\ res.fn = "get_ifname"
             /\ WithAddr(res.arg) # {}
             /\ ~ValidUtf16(Recs[Min(WithAddr(res.arg))].name) )
              => IsInternalError(res.ret)
        /\ (res.fn = "get_ifname" /\ IsOk(res.ret) /\ IsSome(res.ret.val))
              => /\ res.visited # <<>>
                 /\ Recs[res.visited[Len(res.visited)]].name
                        = Utf16(Unwrap(res.ret.val))
        /\ (res.fn = "get_mac" /\ IsSome(res.arg))
              => /\ IsOk(res.ret)
                 /\ \A k \in Visited :
                       ~ValidUtf16(Recs[k].name)
                          => \/ res.ret.val = None
                             \/ k # res.visited[Len(res.visited)]
                 /\ IsSome(res.ret.val)
                       => Recs[res.visited[Len(res.visited)]].name
                             = Utf16(Unwrap(res.arg))

\* get_mac with a name went past a first record whose name is a lone
\* surrogate and returned the address of the second record, which has the
\* name asked for.
C11_Witness ==
    /\ backend = "windows"
    /\ res.fn = "get_mac" /\ IsSome(res.arg) /\ Acquired
    /\ res.visited = <<1, 2>>
    /\ ~ValidUtf16(Recs[1].name)
    /\ IsOk(res.ret) /\ res.ret.val = Some(Recs[2].addr)

----------------------------------------------------------------------------
(* C12 *)

\* C12 as stated: the cursor of a raw-buffer traversal is null or the
\* address of a record of the buffer the traversal acquired; when the fill
\* call succeeds on a buffer of size 0 the cursor starts null, so the
\* traversal ends at its first step (get_mac and get_ifname return Ok(None),
\* get_mac_list the empty list, next() None) and no record is read.
C12_CursorNullOrInBuffer ==
    backend = "windows" =>
        /\ it.live => (is_null(it.ptr) \/ InBuffer(it._buffer, it.ptr))
        /\ (it.live /\ Len(it._buffer) = 0) => is_null(it.ptr)
        /\ (res.fn \in {"get_mac", "get_mac_list", "get_ifname"} /\ Acquired)
              => /\ res.ret.tag \in {"Ok", "Err"}
                 /\ \A j \in 1..Len(res.visited) :
                       res.visited[j] \in 1..Len(res.snap)
                 /\ res.snap = <<>> => (IsOk(res.ret) /\ res.ret.val = <<>>)
        /\ (res.fn = "next" /\ res.snap = <<>>)
              => (IsOk(res.ret) /\ res.ret.val = None /\ res.visited = <<>>)

----------------------------------------------------------------------------
(* C13 *)

\* get_mac(None) of this crate on the snapshot snap of a host of backend b.
MacNoneOn(b, snap) ==
    IF b = "windows" THEN windows_get_mac(OsRecords(snap), None).ret
    ELSE linux_get_mac(snap, None).ret

\* The addresses the iterator the caller holds has yielded.
YieldedBytes == [i \in 1..Len(it.yielded) |-> it.yielded[i].bytes]

\* C13: when a MacAddressIterator has been consumed to its end, on either
\* backend, get_mac_list() on the snapshot it was built on is the yielded
\* sequence without its all-zero addresses, and get_mac(None) on that
\* snapshot is the first yielded address that is not all-zero (None when
\* there is none).
C13_QueriesAgreeWithIterator ==
    (it.live /\ it.ends >= 1) =>
        LET nz == SelectSeq(YieldedBytes, LAMBDA m : m # ZeroMac)
        IN  /\ MacListOn(backend, it.snap) = nz
            /\ IsOk(MacNoneOn(backend, it.snap))
            /\ MacNoneOn(backend, it.snap).val =
                  IF nz = <<>> THEN None ELSE Some(nz[1])

\* A raw-buffer iterator consumed to its end that yielded an all-zero
\* address and then one that is not: the queries skip the first.
C13_Witness ==
    /\ backend = "windows"
    /\ it.live /\ it.ends >= 1
    /\ Len(it.yielded) = 2
    /\ YieldedBytes[1] = ZeroMac
    /\ YieldedBytes[2] # ZeroMac
    /\ MacListOn(backend, it.snap) = << YieldedBytes[2] >>

----------------------------------------------------------------------------
(* C14 *)

\* C14: a raw-buffer iterator built on a chain of n records yields the
\* 6-byte addresses of the records in chain order, all-zero ones too; after
\* k items its cursor is at record k + 1, or null when k = n; it signals the
\* end only when all n have been yielded.
C14_IteratorYieldsChain ==
    (backend = "windows" /\ it.live) =>
        LET n == Len(it.snap)
            k == Len(it.yielded)
        IN  /\ k <= n
            /\ \A i \in 1..k :
                  it.yielded[i].bytes
                     = [j \in 1..6 |-> it.snap[i].PhysicalAddress[j]]
            /\ it.ptr = IF k < n THEN k + 1 ELSE NULL
            /\ it.ends >= 1 => k = n
            /\ (res.fn = "next" /\ IsOk(res.ret) /\ res.ret.val = None)
                  => k = n

\* A chain of two records, the second with the all-zero address: it is
\* yielded as the second item and the third next() signals the end.
C14_Witness ==
    /\ backend = "windows"
    /\ it.live
    /\ Len(it.snap) = 2
    /\ Len(it.yielded) = 2
    /\ it.yielded[2].bytes = ZeroMac
    /\ it.yielded[1].bytes # ZeroMac
    /\ it.ends = 1
    /\ res.fn = "next" /\ IsOk(res.ret) /\ res.ret.val = None

----------------------------------------------------------------------------
(* C15 *)

\* C15: every step in which get_mac, get_mac_list, get_ifname or
\* MacAddressIterator::new returns leaves the host's adapter list as it is,
\* has worked on the list as it is at that step, whatever an earlier call
\* returned on an earlier list (its result is the one C1, C2, C4 and C6
\* give for the current list), and keeps nothing: buf_len and adapters_list
\* are released, and a query leaves no iterator.
C15_EachCallReadsTheHostAfresh ==
    [][ (pc' = "idle" /\ res'.fn \in CallNames /\ Len(log') > 0) =>
            /\ host' = host
            /\ res'.snap = host
            /\ C1_MacListIsNonZeroSubsequence'
            /\ C2_MacNoneIsFirstNonZero'
            /\ C4_MacByNameIsFirstMatch'
            /\ C6_IfnameIsFirstMatchOrError'
            /\ buf_len' = 0
            /\ adapters_list' = <<>>
            /\ IF res'.fn = "iter_new"
               THEN it'.live => (it'.snap = host /\ it'.yielded = <<>>)
               ELSE ~it'.live ]_vars

\* The adapter list changed while a call was in progress: two adapters at
\* the probe, the first of them gone at the fill.  get_mac_list returned the
\* address of the one that is left, and nothing is kept.
C15_Witness ==
    /\ backend = "windows"
    /\ pc = "idle"
    /\ res.fn = "get_mac_list" /\ Acquired
    /\ log[1].len = 2
    /\ Len(host) = 1
    /\ res.snap = host
    /\ IsOk(res.ret) /\ res.ret.val = << Recs[1].addr >>
    /\ buf_len = 0 /\ adapters_list = <<>>

====
